---- MODULE Spec2Model ----
(***************************************************************************)
(* Model of the ReshADX Python SDK transport: HttpClient.request and       *)
(* HttpClient._handle_error_response (src/sdks/python/reshadx/utils/       *)
(* http.py) together with the retry policy the constructor installs on     *)
(* the session (urllib3 Retry mounted through requests' HTTPAdapter).      *)
(*                                                                         *)
(* One call is in progress at a time.  An attempt is dispatched and the    *)
(* environment answers it with a response (status, Retry-After header,     *)
(* body text), a connect-phase failure or a read-phase failure.  The       *)
(* handler of the answer is the whole of the library's retry step plus,    *)
(* when the call ends, the whole of request()'s classification.            *)
(* Redirect (3xx) and informational (1xx) statuses are not in the          *)
(* response alphabet.                                                      *)
(***************************************************************************)
EXTENDS Integers, Sequences, FiniteSets, TLC

(* ------------------------------ bounds --------------------------------- *)
MaxRetriesBound == 2      \* max_retries is drawn from 0..MaxRetriesBound
MaxRetryAfter   == 2      \* Retry-After header values 0..MaxRetryAfter

(* ------------------------- program constants --------------------------- *)
backoff_factor == 1
BACKOFF_MAX    == 120

status_forcelist        == {429, 500, 502, 503, 504}
allowed_methods         == {"HEAD", "GET", "PUT", "DELETE", "OPTIONS", "TRACE", "POST"}
RETRY_AFTER_STATUS_CODES == {413, 429, 503}

Methods  == {"GET", "POST", "PUT", "PATCH", "DELETE"}
Statuses == {200, 400, 404, 413, 429, 500, 502, 503, 504}
\* A Retry-After header is absent (<<>>) or carries a number of seconds.
RetryAfterHeaders == {<<>>} \cup {<<n>> : n \in 0..MaxRetryAfter}

(* ------------------------------ JSON ----------------------------------- *)
(* A decoded JSON value is a record tagged with its Python type.           *)
JNull     == [t |-> "NoneType"]
JInt(s)   == [t |-> "int", s |-> s]
JBool(s)  == [t |-> "bool", s |-> s]
JStr(s)   == [t |-> "str", s |-> s]
JList(e)  == [t |-> "list", e |-> e]
JDict(m)  == [t |-> "dict", m |-> m]
NotJson   == [t |-> "JSONDecodeError"]
NoValue   == [t |-> "-"]

EnvelopeFull ==
    JDict([success |-> JBool(FALSE),
           error |-> JDict([code |-> JStr("VALIDATION_ERROR"),
                            message |-> JStr("bad field"),
                            details |-> JDict([field |-> JStr("email")])]),
           requestId |-> JStr("r-1")])
EnvelopeNoDetails ==
    JDict([error |-> JDict([code |-> JStr("RATE_LIMIT_EXCEEDED"),
                            message |-> JStr("slow down")])])
EnvelopeEmpty == JDict([error |-> JDict(<<>>)])

\* a user object with every required field of the User model
UserJson ==
    JDict([userId |-> JStr("u-1"), email |-> JStr("a@b.c"),
           firstName |-> JStr("A"), lastName |-> JStr("B"),
           phoneNumber |-> JStr("+1"), emailVerified |-> JBool(TRUE),
           phoneVerified |-> JBool(FALSE), accountTier |-> JStr("free"),
           accountStatus |-> JStr("active"), createdAt |-> JStr("2024-01-01")])

TokensJson(access, refresh) ==
    JDict([accessToken |-> JStr(access), refreshToken |-> JStr(refresh)])

(* The body texts the server may send, and what response.json() makes of   *)
(* each of them.                                                           *)
BodyTexts ==
    { "<html>Bad Gateway</html>",
      "{success:true,data:{accounts:[]},message:ok,requestId:r-1,timestamp:t}",
      "{success:true,data:null}", "{data:[]}", "{data:0}",
      "{accounts:[]}", "null",
      "{success:false,error:{code:VALIDATION_ERROR,message:bad field,details:{field:email}},requestId:r-1}",
      "{error:{code:RATE_LIMIT_EXCEEDED,message:slow down}}",
      "{error:{}}", "{error:boom}", "'an error'", "[error]" }

json(text) ==
    CASE text = "{success:true,data:{accounts:[]},message:ok,requestId:r-1,timestamp:t}" ->
            JDict([success |-> JBool(TRUE),
                   data |-> JDict([accounts |-> JList(<<>>)]),
                   message |-> JStr("ok"), requestId |-> JStr("r-1"),
                   timestamp |-> JStr("t")])
      [] text = "{success:true,data:null}" ->
            JDict([success |-> JBool(TRUE), data |-> JNull])
      [] text = "{data:[]}"     -> JDict([data |-> JList(<<>>)])
      [] text = "{data:0}"      -> JDict([data |-> JInt(0)])
      [] text = "{accounts:[]}" -> JDict([accounts |-> JList(<<>>)])
      [] text = "null"          -> JNull
      [] text = "{success:false,error:{code:VALIDATION_ERROR,message:bad field,details:{field:email}},requestId:r-1}" ->
            EnvelopeFull
      [] text = "{error:{code:RATE_LIMIT_EXCEEDED,message:slow down}}" -> EnvelopeNoDetails
      [] text = "{error:{}}"    -> EnvelopeEmpty
      [] text = "{error:boom}"  -> JDict([error |-> JStr("boom")])
      [] text = "'an error'"    -> JStr("an error")
      [] text = "[error]"       -> JList(<<JStr("error")>>)
      [] text = "{error:{code:INVALID_TOKEN,message:expired}}" ->
            JDict([error |-> JDict([code |-> JStr("INVALID_TOKEN"),
                                    message |-> JStr("expired")])])
      [] text = "{data:{user:{...},tokens:{accessToken:tok-L,refreshToken:ref-1}}}" ->
            JDict([data |-> JDict([user |-> UserJson,
                                   tokens |-> TokensJson("tok-L", "ref-1")])])
      [] text = "{data:{userId:u-1,tokens:{accessToken:tok-R,refreshToken:ref-1}}}" ->
            JDict([data |-> JDict([userId |-> JStr("u-1"),
                                   tokens |-> TokensJson("tok-R", "ref-1")])])
      [] text = "{data:{userId:u-1,user:{...},tokens:{refreshToken:ref-1}}}" ->
            JDict([data |-> JDict([userId |-> JStr("u-1"), user |-> UserJson,
                                   tokens |-> JDict([refreshToken |-> JStr("ref-1")])])])
      [] text = "{data:{accessToken:tok-F,refreshToken:ref-2}}" ->
            JDict([data |-> TokensJson("tok-F", "ref-2")])
      [] text = "{data:{accessToken:null,refreshToken:ref-2}}" ->
            JDict([data |-> JDict([accessToken |-> JNull,
                                   refreshToken |-> JStr("ref-2")])])
      [] text = "{data:{refreshToken:ref-2}}" ->
            JDict([data |-> JDict([refreshToken |-> JStr("ref-2")])])
      [] OTHER                  -> NotJson

(* --------------------------- Python values ----------------------------- *)
(* key in value: dict membership, list element, substring of a str; any    *)
(* other type is not iterable (TypeError).                                 *)
IsSubstring(sub, s) ==
    \E i \in 1..(Len(s) - Len(sub) + 1) : SubSeq(s, i, i + Len(sub) - 1) = sub

SupportsIn(v) == v.t \in {"dict", "list", "str"}

Contains(key, v) ==
    CASE v.t = "dict" -> key \in DOMAIN v.m
      [] v.t = "list" -> \E i \in DOMAIN v.e : v.e[i] = JStr(key)
      [] v.t = "str"  -> IsSubstring(key, v.s)
      [] OTHER        -> FALSE

\* dict.get(key, default)
Get(d, key, default) == IF key \in DOMAIN d.m THEN d.m[key] ELSE default

\* truthiness, as used by "details or {}"
Truthy(v) ==
    CASE v.t = "NoneType" -> FALSE
      [] v.t = "dict"     -> DOMAIN v.m # {}
      [] v.t = "list"     -> DOMAIN v.e # {}
      [] v.t = "str"      -> v.s # ""
      [] v.t = "int"      -> v.s # 0
      [] v.t = "bool"     -> v.s
      [] OTHER            -> TRUE

(* ----------------------------- outcomes -------------------------------- *)
(* What a finished call hands to its caller.  exc "-" is a normal return;  *)
(* ServerError is a subclass of ReshADXError.                              *)
Return(v) ==
    [exc |-> "-", value |-> v, message |-> NoValue, code |-> NoValue,
     status_code |-> 0, details |-> NoValue]

Raise(exc) ==
    [exc |-> exc, value |-> NoValue, message |-> NoValue, code |-> NoValue,
     status_code |-> 0, details |-> NoValue]

ReshADXError(message, code, status_code, details) ==
    [exc |-> "ReshADXError", value |-> NoValue, message |-> message,
     code |-> code, status_code |-> status_code,
     details |-> IF Truthy(details) THEN details ELSE JDict(<<>>)]

ServerError(message) ==
    [ReshADXError(message, JStr("SERVER_ERROR"), 500, JNull)
        EXCEPT !.exc = "ServerError"]

NoResult == Raise("pending")

IsReshADXError(r) == r.exc \in {"ReshADXError", "ServerError"}

(* ---------------------- _handle_error_response ------------------------- *)
HandleErrorResponse(status, text) ==
    LET error_data == json(text)
        Fallback   == ServerError(JStr("HTTP " \o ToString(status) \o ": " \o text))
    IN  IF error_data = NotJson THEN Fallback               \* except ValueError: pass
        ELSE IF ~SupportsIn(error_data) THEN Raise("TypeError")
        ELSE IF ~Contains("error", error_data) THEN Fallback
        ELSE IF error_data.t # "dict" THEN Raise("TypeError")   \* error_data["error"]
        ELSE LET error == error_data.m["error"]
             IN  IF error.t # "dict" THEN Raise("AttributeError")  \* error.get
                 ELSE ReshADXError(Get(error, "message", JStr("Unknown error")),
                                   Get(error, "code", JStr("UNKNOWN_ERROR")),
                                   status,
                                   Get(error, "details", JNull))

(* --------------------- request(): success branch ----------------------- *)
\* mutation: "data" is unwrapped only when its value is truthy
Unwrap_Truthy(data) ==
    IF data.t = "dict" /\ "data" \in DOMAIN data.m /\ Truthy(data.m["data"])
    THEN data.m["data"] ELSE data

Unwrap(data) ==
    IF data.t = "dict" /\ "data" \in DOMAIN data.m THEN data.m["data"] ELSE data

(* --------------------- request(): except clauses ----------------------- *)
(* requests' exception classes, by the except clause that catches them.    *)
TimeoutClasses         == {"ConnectTimeout", "ReadTimeout"}
ConnectionErrorClasses == {"ConnectTimeout", "ConnectionError"}
RequestExceptionClasses ==
    TimeoutClasses \cup ConnectionErrorClasses \cup {"RetryError", "JSONDecodeError"}

Classify(exc, text) ==
    IF exc \in TimeoutClasses
    THEN ReshADXError(JStr("Request timed out"), JStr("TIMEOUT_ERROR"), 0, JNull)
    ELSE IF exc \in ConnectionErrorClasses
    THEN ReshADXError(JStr("Connection error"), JStr("NETWORK_ERROR"), 0, JNull)
    ELSE IF exc \in RequestExceptionClasses
    THEN ReshADXError(JStr(text), JStr("NETWORK_ERROR"), 0, JNull)
    ELSE Raise(exc)

(* response.json() on a 2xx body that is not JSON raises                    *)
(* requests.exceptions.JSONDecodeError, which is a RequestException        *)
(* (requests 2.27 and later).                                              *)
HandleResponse(status, text) ==
    IF status >= 400 THEN HandleErrorResponse(status, text)
    ELSE IF json(text) = NotJson
         THEN Classify("JSONDecodeError", "Expecting value")
         ELSE Return(Unwrap(json(text)))

(* ---------------------------- retry policy ----------------------------- *)
(* Retry(total=max_retries, backoff_factor=1, status_forcelist=[...],      *)
(* allowed_methods=[...]) as urllib3 applies it inside the adapter.        *)
Min(a, b) == IF a <= b THEN a ELSE b

Pow2(n) == IF n <= 0 THEN 1 ELSE 2 ^ n

IsMethodRetryable(m) == m \in allowed_methods

\* Retry.is_retry(method, status_code, has_retry_after)
IsRetry(m, status, has_retry_after, total_) ==
    IF ~IsMethodRetryable(m) THEN FALSE
    ELSE IF status \in status_forcelist THEN TRUE
    ELSE total_ # 0 /\ has_retry_after /\ status \in RETRY_AFTER_STATUS_CODES

\* mutation: gives up with one retry left
IsExhausted_Early(total_) == total_ <= 0

\* mutation: allows one retry too many
IsExhausted_Late(total_) == total_ < -1

\* Retry.is_exhausted() of the Retry object increment() builds
IsExhausted(total_) == total_ < 0

\* Retry.get_backoff_time(), n consecutive errors in the history
GetBackoffTime(n) ==
    IF n <= 1 THEN 0 ELSE Min(BACKOFF_MAX, backoff_factor * Pow2(n - 1))

\* Retry.get_retry_after(response): 0 stands for None
GetRetryAfter(header) == IF header = <<>> THEN 0 ELSE header[1]

\* mutation: the Retry-After header is ignored
SleepTime_BackoffOnly(header, n) == GetBackoffTime(n)

\* Retry.sleep(response): a truthy Retry-After is slept instead of the backoff
SleepTime(header, n) ==
    IF GetRetryAfter(header) > 0 THEN GetRetryAfter(header) ELSE GetBackoffTime(n)

\* HTTPAdapter.send: the requests exception a urllib3 failure becomes when
\* it is re-raised at once (the method may not be retried)
DirectExc(kind) ==
    CASE kind = "read_timeout" -> "ReadTimeout"
      [] OTHER                 -> "ConnectionError"

\* HTTPAdapter.send: the requests exception raised for MaxRetryError(reason)
MaxRetryExc(kind) ==
    CASE kind = "connect_timeout" -> "ConnectTimeout"
      [] kind = "response"        -> "RetryError"
      [] OTHER                    -> "ConnectionError"

ConnectFailures == {"connect_timeout", "refused"}
ReadFailures    == {"read_timeout", "reset"}

(* --------------------------- configuration ----------------------------- *)
PRODUCTION_URL == "https://api.reshadx.com/v1"
SANDBOX_URL    == "https://sandbox-api.reshadx.com/v1"
ApiKey         == "key-1"

\* HttpClient.__init__: "if base_url: ... elif environment == 'production'"
\* a constructor that sends every unknown environment to production
BaseUrlFor_Strict(env, override) ==
    IF Truthy(override) THEN override.s
    ELSE IF env = "sandbox" THEN SANDBOX_URL
    ELSE PRODUCTION_URL

BaseUrlFor(env, override) ==
    IF Truthy(override) THEN override.s
    ELSE IF env = "production" THEN PRODUCTION_URL
    ELSE SANDBOX_URL

(* ------------------------------- headers ------------------------------- *)
SetHeader(h, k, v) == [x \in DOMAIN h \cup {k} |-> IF x = k THEN v ELSE h[x]]
DelHeader(h, k)    == [x \in DOMAIN h \ {k} |-> h[x]]

\* session.headers.update({...}) of the constructor
DefaultHeaders(key) ==
    SetHeader(SetHeader(SetHeader(<<>>, "Content-Type", "application/json"),
                        "X-API-Key", key),
              "User-Agent", "ReshADX-Python-SDK/1.0.0")

\* f"{value}"
Format(v) ==
    CASE v.t = "str"      -> v.s
      [] v.t = "NoneType" -> "None"
      [] v.t = "int"      -> ToString(v.s)
      [] OTHER            -> "<" \o v.t \o ">"

(* --------------------------------- URL --------------------------------- *)
RECURSIVE LStrip(_)
\* path.lstrip("/")
LStrip(s) ==
    IF Len(s) > 0 /\ SubSeq(s, 1, 1) = "/" THEN LStrip(SubSeq(s, 2, Len(s))) ELSE s

\* positions of "/" in s at or after position from
SlashesFrom(s, from) == {i \in from..Len(s) : SubSeq(s, i, i) = "/"}

SetMax(S) == CHOOSE i \in S : \A j \in S : j <= i
SetMin(S) == CHOOSE i \in S : \A j \in S : i <= j

\* first position after "scheme://"
AuthorityStart(u) ==
    SetMin({i \in 1..Len(u) : i >= 3 /\ SubSeq(u, i - 2, i) = "://"}) + 1

(* urllib.parse.urljoin(base, rel) for an absolute http(s) base and a rel  *)
(* without scheme, authority, query or dot segments: an empty rel gives    *)
(* the base; otherwise rel replaces what follows the last "/" of the       *)
(* base's path.                                                            *)
UrlJoin(base, rel) ==
    LET pathSlashes == SlashesFrom(base, AuthorityStart(base))
    IN  IF rel = "" THEN base
        ELSE IF pathSlashes = {} THEN base \o "/" \o rel
        ELSE SubSeq(base, 1, SetMax(pathSlashes)) \o rel

(* ------------------------------- state --------------------------------- *)
VARIABLES
    max_retries,    \* constructor argument, the Retry total
    ctor,           \* the other constructor arguments (environment, base_url)
    base_url,       \* HttpClient.base_url
    access_token,   \* HttpClient.access_token
    headers,        \* HttpClient.session.headers
    token_log,      \* last operation on the token: what it was, the token
                    \* it installed, whether a token was set before it, the
                    \* exception it raised, the attempt of the current call
                    \* in flight when it ran (0: it ran before the call)
    pc,             \* "idle", "inflight" (an attempt is outstanding), "done"
    op,             \* operation that issued the current call
    method,         \* method of the current call
    prepared,       \* the prepared request of the current call: url, the
                    \* path it was built from and headers, with access_token and the kind of the last
                    \* token operation as they were at dispatch
    sent,           \* headers carried by each attempt of the current call
    total,          \* remaining Retry.total of the current call
    history,        \* number of entries of Retry.history
    attempts,       \* attempts dispatched by the current call
    inflight,       \* attempts dispatched and not yet answered
    waited,         \* time slept between the previous answer and the
                    \* dispatch of the latest attempt
    prev,           \* answer to the previous attempt (the one retried)
    seen,           \* classes of the answers retried so far in this call
    response,       \* answer that ended the call
    result,         \* what request() handed to the caller
    op_result,      \* what the operation handed to its caller
    wh,             \* latest Webhooks call: arguments and outcome
    peer            \* the HttpClient instances other than the one above:
                    \* their token and session headers, the latest request
                    \* dispatched on one of them, and the client that ran
                    \* the latest ReshADX.set/clear_access_token

clientVars == <<max_retries, ctor, base_url>>
tokenVars  == <<access_token, headers, token_log>>
callVars   == <<pc, op, method, prepared, sent, total, history, attempts,
                inflight, waited, prev, seen, response, result, op_result>>

vars == <<max_retries, ctor, base_url, access_token, headers, token_log,
          pc, op, method, prepared, sent, total, history, attempts, inflight,
          waited, prev, seen, response, result, op_result, wh, peer>>

NoAnswer == [kind |-> "none", status |-> 0, retry_after |-> <<>>]
NoResponse == [kind |-> "none", status |-> 0, text |-> ""]
NoTokenOp == [kind |-> "none", token |-> JNull, had |-> FALSE, exc |-> "-",
              at |-> 0]
NoPrepared == [url |-> "", path |-> "", headers |-> <<>>, token |-> JNull,
               after |-> "none"]
NoWebhookCall == [fn |-> "none"]

(* Two ReshADX clients: "A", whose HttpClient is the one of the variables  *)
(* above, and "B".                                                         *)
Clients   == {"A", "B"}
Resources == {"auth", "link", "accounts", "transactions", "credit_score",
              "risk", "webhooks", "items"}

\* mutation: one HttpClient for every client
Http_Global(client) == "A"

\* ReshADX.__init__: self._http = HttpClient(...), one for each client
Http(client) == client

\* ReshADX.__init__: every resource is built on self._http
ResourceHttp(client, resource) == Http(client)

PeerHttps == {Http(c) : c \in Clients} \ {"A"}

NoPeerRequest == [client |-> "-", resource |-> "-", token |-> JNull,
                  headers |-> <<>>]
NoClientOp    == [client |-> "-", kind |-> "none"]
NoPeers ==
    [http |-> [t \in PeerHttps |->
                  [access_token |-> JNull, headers |-> DefaultHeaders(ApiKey)]],
     last |-> NoPeerRequest,
     by   |-> NoClientOp]

AnswerClass(kind, status) ==
    IF kind = "response"
    THEN (IF status \in status_forcelist THEN "forcelist" ELSE "retry_after_only")
    ELSE kind

(* HttpClient.__init__(api_key, environment, base_url, timeout, max_retries) *)
ConstructClient(env, override, mr) ==
    /\ max_retries = mr
    /\ ctor = [environment |-> env, base_url |-> override]
    /\ base_url = BaseUrlFor(env, override)
    /\ access_token = JNull
    /\ headers = DefaultHeaders(ApiKey)
    /\ token_log = NoTokenOp
    /\ pc = "idle"
    /\ op = "request"
    /\ method = "GET"
    /\ prepared = NoPrepared
    /\ sent = <<>>
    /\ total = mr
    /\ history = 0
    /\ attempts = 0
    /\ inflight = 0
    /\ waited = 0
    /\ prev = NoAnswer
    /\ seen = {}
    /\ response = NoResponse
    /\ result = NoResult
    /\ op_result = NoResult
    /\ peer = NoPeers

Construct(env, override, mr) ==
    /\ ConstructClient(env, override, mr)
    /\ wh = NoWebhookCall

Init == \E mr \in 0..MaxRetriesBound : Construct("production", JNull, mr)

(* ------------------------------ the token ------------------------------ *)
\* mutation: the session header is not updated
SetToken_NoHeader(token) ==
    /\ access_token' = token
    /\ UNCHANGED headers

\* set_access_token(token)
SetToken(token) ==
    /\ access_token' = token
    /\ headers' = SetHeader(headers, "Authorization", "Bearer " \o Format(token))

\* mutation: only the field is reset
ClearToken_KeepsHeader ==
    /\ access_token' = JNull
    /\ UNCHANGED headers

\* clear_access_token(): the header is deleted only when present
ClearToken ==
    /\ access_token' = JNull
    /\ headers' = IF "Authorization" \in DOMAIN headers
                  THEN DelHeader(headers, "Authorization") ELSE headers

\* exception raised by "del h[k]"
DelHeaderExc(h, k) == IF k \in DOMAIN h THEN "-" ELSE "KeyError"

\* exception raised by clear_access_token()
ClearExc(h) ==
    IF "Authorization" \in DOMAIN h THEN DelHeaderExc(h, "Authorization") ELSE "-"

\* the entry of token_log for an operation run now
TokenOp(kind, token, exc) ==
    [kind |-> kind, token |-> token, had |-> access_token # JNull, exc |-> exc,
     at |-> IF pc = "inflight" THEN attempts ELSE 0]

SetAccessToken(token) ==
    /\ SetToken(token)
    /\ token_log' = TokenOp("set_access_token", token, "-")
    /\ UNCHANGED <<clientVars, callVars, wh, peer>>

ClearAccessToken ==
    /\ ClearToken
    /\ token_log' = TokenOp("clear_access_token", JNull, ClearExc(headers))
    /\ UNCHANGED <<clientVars, callVars, wh, peer>>

\* Auth.logout()
Logout ==
    /\ ClearToken
    /\ token_log' = TokenOp("logout", JNull, ClearExc(headers))
    /\ UNCHANGED <<clientVars, callVars, wh, peer>>

(* ------------------------------ the call ------------------------------- *)
\* mutation: each attempt reads the session's headers afresh
AttemptHeaders_Live(prepared_headers, session_headers) == session_headers

\* headers an attempt carries: those merged into the prepared request when
\* the call was dispatched
AttemptHeaders(prepared_headers, session_headers) == prepared_headers

(* request(): the url is joined, session.request(...) prepares the request *)
(* (session headers merged in) and dispatches the first attempt with a     *)
(* fresh copy of the adapter's Retry object.  o is the operation issuing   *)
(* the call: a plain request, Auth.login, Auth.register, Auth.refresh_token *)
Request(o, m, path) ==
    /\ pc \in {"idle", "done"}
    /\ pc' = "inflight"
    /\ op' = o
    /\ method' = m
    /\ prepared' = [url |-> UrlJoin(base_url, LStrip(path)), path |-> path,
                    headers |-> headers, token |-> access_token,
                    after |-> token_log.kind]
    /\ sent' = <<AttemptHeaders(headers, headers)>>
    /\ total' = max_retries
    /\ history' = 0
    /\ attempts' = 1
    /\ inflight' = inflight + 1
    /\ waited' = 0
    /\ prev' = NoAnswer
    /\ seen' = {}
    /\ response' = NoResponse
    /\ result' = NoResult
    /\ op_result' = NoResult
    /\ token_log' = [token_log EXCEPT !.at = 0]
    /\ UNCHANGED <<clientVars, access_token, headers, wh, peer>>

\* urlopen: retries = retries.increment(...); retries.sleep(...); urlopen again
Resend(kind, status, header, delay) ==
    /\ pc' = "inflight"
    /\ total' = total - 1
    /\ history' = history + 1
    /\ attempts' = attempts + 1
    /\ inflight' = (inflight - 1) + 1
    /\ waited' = delay
    /\ prev' = [kind |-> kind, status |-> status, retry_after |-> header]
    /\ seen' = seen \cup {AnswerClass(kind, status)}
    /\ sent' = Append(sent, AttemptHeaders(prepared.headers, headers))
    /\ UNCHANGED <<clientVars, tokenVars, op, method, prepared, response,
                   result, op_result, wh, peer>>

(* ---------------------------- Auth resource ---------------------------- *)
HasStr(d, key) == d.t = "dict" /\ key \in DOMAIN d.m /\ d.m[key].t = "str"

\* a pydantic field is populated by its alias or (populate_by_name) its name
HasStrField(d, alias, name) == HasStr(d, alias) \/ HasStr(d, name)

FieldOf(d, alias, name) == IF alias \in DOMAIN d.m THEN d.m[alias] ELSE d.m[name]

\* Tokens(accessToken, refreshToken)
ValidTokens(d) ==
    /\ HasStrField(d, "accessToken", "access_token")
    /\ HasStrField(d, "refreshToken", "refresh_token")

\* User: the required fields
ValidUser(d) ==
    /\ d.t = "dict"
    /\ {"userId", "email", "firstName", "lastName", "phoneNumber",
        "emailVerified", "phoneVerified", "accountTier", "accountStatus",
        "createdAt"} \subseteq DOMAIN d.m

\* RegisterResponse(**response) / LoginResponse(**response)
Validates(o, d) ==
    /\ d.t = "dict"
    /\ "tokens" \in DOMAIN d.m
    /\ d.m["tokens"].t = "dict"
    /\ ValidTokens(d.m["tokens"])
    /\ IF o = "register" THEN HasStrField(d, "userId", "user_id")
       ELSE "user" \in DOMAIN d.m /\ ValidUser(d.m["user"])

\* mutation: the response's token is not installed
AfterSuccess_NoChain(o, res) == [out |-> res, token |-> NoValue]

\* mutation: refresh_token leaves the token alone
AfterSuccess_RefreshKeeps(o, res) ==
    IF o = "request"
    THEN [out |-> res, token |-> NoValue]
    ELSE IF o \in {"login", "register"}
    THEN (IF res.value.t # "dict"
          THEN [out |-> Raise("TypeError"), token |-> NoValue]
          ELSE IF ~Validates(o, res.value)
          THEN [out |-> Raise("ValidationError"), token |-> NoValue]
          ELSE [out |-> res,
                token |-> FieldOf(res.value.m["tokens"], "accessToken", "access_token")])
    ELSE (IF ~SupportsIn(res.value)
          THEN [out |-> Raise("TypeError"), token |-> NoValue]
          ELSE [out |-> res, token |-> NoValue])

\* mutation: login and register install the token before they validate
AfterSuccess_InstallFirst(o, res) ==
    IF o = "request"
    THEN [out |-> res, token |-> NoValue]
    ELSE IF o \in {"login", "register"}
    THEN (IF res.value.t # "dict"
          THEN [out |-> Raise("TypeError"), token |-> NoValue]
          ELSE [out |-> IF Validates(o, res.value) THEN res
                        ELSE Raise("ValidationError"),
                token |-> IF /\ "tokens" \in DOMAIN res.value.m
                             /\ HasStr(res.value.m["tokens"], "accessToken")
                          THEN res.value.m["tokens"].m["accessToken"]
                          ELSE NoValue])
    ELSE (IF ~SupportsIn(res.value)
          THEN [out |-> Raise("TypeError"), token |-> NoValue]
          ELSE IF ~Contains("accessToken", res.value)
          THEN [out |-> res, token |-> NoValue]
          ELSE IF res.value.t # "dict"
          THEN [out |-> Raise("TypeError"), token |-> NoValue]
          ELSE [out |-> res, token |-> res.value.m["accessToken"]])

(* What the operation makes of the payload request() returned: the outcome *)
(* handed to its caller and the token it installs (NoValue: none).         *)
AfterSuccess(o, res) ==
    IF o = "request"
    THEN [out |-> res, token |-> NoValue]
    ELSE IF o \in {"login", "register"}
    THEN (IF res.value.t # "dict"
          THEN [out |-> Raise("TypeError"), token |-> NoValue]
          ELSE IF ~Validates(o, res.value)
          THEN [out |-> Raise("ValidationError"), token |-> NoValue]
          ELSE [out |-> res,
                token |-> FieldOf(res.value.m["tokens"], "accessToken", "access_token")])
    ELSE \* refresh_token
         (IF ~SupportsIn(res.value)
          THEN [out |-> Raise("TypeError"), token |-> NoValue]
          ELSE IF ~Contains("accessToken", res.value)
          THEN [out |-> res, token |-> NoValue]
          ELSE IF res.value.t # "dict"
          THEN [out |-> Raise("TypeError"), token |-> NoValue]
          ELSE [out |-> res, token |-> res.value.m["accessToken"]])

\* mutation: a 401 resets the token
AfterCall_ResetOn401(o, res) ==
    IF res.exc # "-"
    THEN [out |-> res,
          token |-> IF res.status_code = 401 THEN JNull ELSE NoValue]
    ELSE AfterSuccess(o, res)

\* an exception of request() propagates through the operation
AfterCall(o, res) ==
    IF res.exc # "-" THEN [out |-> res, token |-> NoValue]
    ELSE AfterSuccess(o, res)

\* the call ends: request() returns or raises, and the operation that
\* issued it goes on with the outcome
Finish(kind, status, text, res) ==
    /\ pc' = "done"
    /\ inflight' = inflight - 1
    /\ response' = [kind |-> kind, status |-> status, text |-> text]
    /\ result' = res
    /\ op_result' = AfterCall(op, res).out
    /\ IF AfterCall(op, res).token = NoValue
       THEN UNCHANGED tokenVars
       ELSE /\ SetToken(AfterCall(op, res).token)
            /\ token_log' = TokenOp(op, AfterCall(op, res).token, "-")
    /\ UNCHANGED <<clientVars, op, method, prepared, sent, total, history,
                   attempts, waited, prev, seen, wh, peer>>

(* The attempt is answered by a response.                                  *)
Respond(status, header, text) ==
    /\ pc = "inflight"
    /\ IF IsRetry(method, status, header # <<>>, total)
       THEN IF IsExhausted(total - 1)
            THEN Finish("response", status, text,
                        Classify(MaxRetryExc("response"), "Max retries exceeded"))
            ELSE Resend("response", status, header, SleepTime(header, history + 1))
       ELSE Finish("response", status, text, HandleResponse(status, text))

(* The attempt fails while connecting (connect timeout, refused): retried  *)
(* whatever the method.                                                    *)
ConnectError(kind) ==
    /\ pc = "inflight"
    /\ IF IsExhausted(total - 1)
       THEN Finish(kind, 0, "", Classify(MaxRetryExc(kind), "Max retries exceeded"))
       ELSE Resend(kind, 0, <<>>, GetBackoffTime(history + 1))

(* The attempt fails after the request was sent (read timeout, reset):     *)
(* retried only for a method of allowed_methods.                           *)
ReadError(kind) ==
    /\ pc = "inflight"
    /\ IF ~IsMethodRetryable(method)
       THEN Finish(kind, 0, "", Classify(DirectExc(kind), "Connection aborted"))
       ELSE IF IsExhausted(total - 1)
            THEN Finish(kind, 0, "", Classify(MaxRetryExc(kind), "Max retries exceeded"))
            ELSE Resend(kind, 0, <<>>, GetBackoffTime(history + 1))

(* The transport alone: one client with the default configuration and no   *)
(* token, plain requests, every answer.                                    *)
Next ==
    \/ \E m \in Methods : Request("request", m, "/items")
    \/ \E status \in Statuses, header \in RetryAfterHeaders,
          text \in BodyTexts :
            Respond(status, header, text)
    \/ \E kind \in ConnectFailures : ConnectError(kind)
    \/ \E kind \in ReadFailures : ReadError(kind)

Spec == Init /\ [][Next]_vars

TypeOK ==
    /\ max_retries \in 0..MaxRetriesBound
    /\ pc \in {"idle", "inflight", "done"}
    /\ method \in Methods
    /\ attempts \in 0..(MaxRetriesBound + 1)
    /\ inflight \in 0..1

(* The client with its token: plain requests and the Auth operations, the  *)
(* token set and cleared at any time (also while a call is in flight), a   *)
(* small alphabet of answers.                                              *)
UserTokens     == {JStr("tok-A")}
AuthStatuses   == {200, 401, 503}
AuthBodyTexts ==
    { "{success:true,data:null}",
      "{error:{code:INVALID_TOKEN,message:expired}}",
      "{data:{user:{...},tokens:{accessToken:tok-L,refreshToken:ref-1}}}",
      "{data:{userId:u-1,tokens:{accessToken:tok-R,refreshToken:ref-1}}}",
      "{data:{userId:u-1,user:{...},tokens:{refreshToken:ref-1}}}",
      "{data:{accessToken:tok-F,refreshToken:ref-2}}",
      "{data:{accessToken:null,refreshToken:ref-2}}",
      "{data:{refreshToken:ref-2}}" }

Login        == Request("login", "POST", "/auth/login")
Register     == Request("register", "POST", "/auth/register")
RefreshToken == Request("refresh_token", "POST", "/auth/refresh-token")

NextAuth ==
    \/ Request("request", "GET", "/accounts")
    \/ Login
    \/ Register
    \/ RefreshToken
    \/ \E token \in UserTokens : SetAccessToken(token)
    \/ ClearAccessToken
    \/ Logout
    \/ \E status \in AuthStatuses, text \in AuthBodyTexts :
            Respond(status, <<>>, text)
    \/ ConnectError("refused")
    \/ ReadError("read_timeout")

\* one retry at most is enough to tell the attempts of a call apart
InitAuth == \E mr \in {0, 1} : Construct("production", JNull, mr)

SpecAuth == InitAuth /\ [][NextAuth]_vars

(* ============================== claims ================================= *)
Done == pc = "done"

\* the call ended on a response with this property of its status
EndedOnStatus(S) == response.kind = "response" /\ response.status \in S

ErrorStatuses == {st \in Statuses : st >= 400}
OkStatuses    == Statuses \ ErrorStatuses

\* every answer retried so far was a status of status_forcelist
OnlyForcelistRetried == seen \subseteq {"forcelist"}

\* the body of the final response decodes to {error: {code, message, details}}
HasErrorEnvelope ==
    LET d == json(response.text)
    IN  /\ d.t = "dict"
        /\ "error" \in DOMAIN d.m
        /\ d.m["error"].t = "dict"
        /\ "code" \in DOMAIN d.m["error"].m

HasFullErrorEnvelope ==
    /\ HasErrorEnvelope
    /\ {"message", "details"} \subseteq DOMAIN json(response.text).m["error"].m

EnvelopeError == json(response.text).m["error"].m

(* C1: for a retryable method, when the first max_retries attempts each    *)
(* returned a status of the retryable set and the next attempt returned a  *)
(* 2xx with a JSON body, request() returns the payload of that last        *)
(* response after exactly max_retries+1 attempts; and a call whose         *)
(* attempts only ever returned retryable statuses never gives up before    *)
(* max_retries attempts were retried.                                      *)
C1_RetriesThenSuccess ==
    (Done /\ IsMethodRetryable(method) /\ OnlyForcelistRetried) =>
        /\ (/\ history = max_retries
            /\ EndedOnStatus(OkStatuses)
            /\ json(response.text) # NotJson)
           => /\ result.exc = "-"
              /\ result.value =
                   (LET d == json(response.text)
                    IN  IF d.t = "dict" /\ "data" \in DOMAIN d.m
                        THEN d.m["data"] ELSE d)
              /\ attempts = max_retries + 1
        /\ EndedOnStatus(status_forcelist) => history = max_retries

C1_Witness ==
    /\ Done /\ method = "POST" /\ max_retries = MaxRetriesBound
    /\ seen = {"forcelist"} /\ prev.status = 504
    /\ history = max_retries /\ attempts = max_retries + 1
    /\ EndedOnStatus(OkStatuses)
    /\ result = Return(JDict([accounts |-> JList(<<>>)]))

(* C2: when every one of the max_retries+1 attempts returned a retryable   *)
(* status and the last body is an error envelope, request() raises a typed *)
(* error with the envelope's code, message and details and the status of   *)
(* the last response.                                                      *)
C2_ExhaustedRaisesEnvelope ==
    (/\ Done /\ IsMethodRetryable(method) /\ OnlyForcelistRetried
     /\ attempts = max_retries + 1
     /\ EndedOnStatus(status_forcelist)
     /\ HasFullErrorEnvelope)
    => /\ IsReshADXError(result)
       /\ result.code = EnvelopeError["code"]
       /\ result.message = EnvelopeError["message"]
       /\ result.details = EnvelopeError["details"]
       /\ result.status_code = response.status

(* C3: a call answered by a non-retryable error status makes exactly one   *)
(* attempt and raises a typed error with the envelope's code and the       *)
(* response's HTTP status.                                                 *)
C3_NonRetryableOneAttempt ==
    (/\ Done
     /\ seen \subseteq {"retry_after_only"}
     /\ EndedOnStatus(ErrorStatuses \ status_forcelist)
     /\ HasErrorEnvelope)
    => /\ attempts = 1
       /\ IsReshADXError(result)
       /\ result.code = EnvelopeError["code"]
       /\ result.status_code = response.status

(* C4: a non-success response without an error envelope (body not JSON, or *)
(* a JSON object without an "error" key) raises SERVER_ERROR carrying the  *)
(* raw status as status_code and the raw status and body in the message.   *)
C4_BareErrorKeepsStatus ==
    (/\ Done
     /\ EndedOnStatus(ErrorStatuses)
     /\ LET d == json(response.text)
        IN  d = NotJson \/ (d.t = "dict" /\ "error" \notin DOMAIN d.m))
    => /\ result.exc = "ServerError"
       /\ result.code = JStr("SERVER_ERROR")
       /\ result.status_code = response.status
       /\ result.message =
            JStr("HTTP " \o ToString(response.status) \o ": " \o response.text)

(* C5: only methods of the allow-list are retried: a PATCH call is         *)
(* attempted exactly once whatever its outcome, and a POST call answered   *)
(* by retryable statuses is retried up to max_retries times.               *)
C5_OnlyAllowListRetried ==
    /\ (method \notin allowed_methods) => attempts <= 1
    /\ (/\ Done /\ method = "POST" /\ OnlyForcelistRetried
        /\ EndedOnStatus(status_forcelist))
       => attempts = max_retries + 1

(* C6: attempts of a call are sequential (at most one outstanding), never  *)
(* more than max_retries+1 are made, a finished call has a result and no   *)
(* attempt outstanding, and the answer to attempt max_retries+1 always     *)
(* ends the call.                                                          *)
C6_StateInv ==
    /\ inflight <= 1
    /\ attempts <= max_retries + 1
    /\ pc = "inflight" => inflight = 1 /\ result = NoResult
    /\ Done => inflight = 0 /\ result # NoResult

C6_LastAttemptEnds ==
    (pc = "inflight" /\ attempts = max_retries + 1)
        => (pc' = "done" /\ attempts' = attempts)

C6_BoundedSequentialAttempts == [](C6_StateInv) /\ [][C6_LastAttemptEnds]_vars

C6_Witness ==
    /\ Done /\ attempts = max_retries + 1 /\ max_retries = MaxRetriesBound
    /\ {"forcelist", "refused", "read_timeout"} \subseteq
          (seen \cup {AnswerClass(response.kind, response.status)})
    /\ IsReshADXError(result)

(* C7: after a 429 carrying Retry-After: N the next attempt starts no      *)
(* sooner than N time units later, whatever the computed backoff.          *)
C7_RetryAfterHonoured ==
    (/\ attempts > 1
     /\ prev.kind = "response" /\ prev.status = 429
     /\ prev.retry_after # <<>>)
    => waited >= prev.retry_after[1]

C7_Witness ==
    /\ pc = "inflight" /\ attempts = 2
    /\ prev.kind = "response" /\ prev.status = 429
    /\ prev.retry_after = <<MaxRetryAfter>>
    /\ GetBackoffTime(history) < MaxRetryAfter
    /\ waited = MaxRetryAfter

(* C8: a 2xx response with a JSON body returns the value under "data" when *)
(* the body is an object with that key (whatever the value), the whole     *)
(* decoded value otherwise; the envelope's metadata is not in the result   *)
(* when "data" was unwrapped.                                              *)
EnvelopeMetadata == {"success", "message", "requestId", "timestamp"}

C8_SuccessUnwrapping ==
    (Done /\ EndedOnStatus(OkStatuses) /\ json(response.text) # NotJson)
    => LET d == json(response.text)
       IN  /\ result.exc = "-"
           /\ (d.t = "dict" /\ "data" \in DOMAIN d.m)
                => /\ result.value = d.m["data"]
                   /\ result.value.t = "dict"
                        => DOMAIN result.value.m \cap EnvelopeMetadata = {}
           /\ ~(d.t = "dict" /\ "data" \in DOMAIN d.m) => result.value = d

C8_Witness ==
    /\ Done /\ EndedOnStatus(OkStatuses)
    /\ response.text = "{success:true,data:null}"
    /\ result = Return(JNull)

(* C9: every call that does not return a payload raises exactly one typed  *)
(* ReshADXError carrying code, message, status_code and details; no other  *)
(* exception type escapes request().                                       *)
C9_OnlyTypedErrors ==
    (Done /\ result.exc # "-")
    => /\ IsReshADXError(result)
       /\ result.code.t = "str"
       /\ result.message.t = "str"
       /\ result.details.t = "dict"

(* C10: a call ended by a timeout raises TIMEOUT_ERROR with status 0 (also *)
(* for a connect timeout, and also after retries), a call ended by a       *)
(* refused or reset connection raises NETWORK_ERROR with status 0.         *)
C10_TimeoutVsNetwork ==
    /\ (Done /\ response.kind \in {"connect_timeout", "read_timeout"})
       => /\ IsReshADXError(result)
          /\ result.code = JStr("TIMEOUT_ERROR")
          /\ result.status_code = 0
    /\ (Done /\ response.kind \in {"refused", "reset"})
       => /\ IsReshADXError(result)
          /\ result.code = JStr("NETWORK_ERROR")
          /\ result.status_code = 0

(* ---------------------- claims about the token ------------------------- *)
ClearKinds == {"clear_access_token", "logout"}
ChainKinds == {"login", "register"}
\* the operations that call set_access_token
InstallKinds == {"set_access_token", "login", "register", "refresh_token"}

HasAuthorization(h) == "Authorization" \in DOMAIN h

\* the access token of the body that ended a login or register call
ResponseAccessToken ==
    json(response.text).m["data"].m["tokens"].m["accessToken"]

\* no operation touched the token since the current call was dispatched
TokenUntouchedSinceDispatch == pc = "inflight" /\ token_log.at = 0

C12_ClearedMeansNoAuthorization ==
    /\ token_log.kind \in ClearKinds
          => /\ access_token = JNull
             /\ headers = DefaultHeaders(ApiKey)
             /\ token_log.exc = "-"
    /\ prepared.after \in ClearKinds
          => \A i \in 1..Len(sent) : ~HasAuthorization(sent[i])

C12_Witness ==
    /\ TokenUntouchedSinceDispatch /\ op = "request"
    /\ prepared.after = "logout"
    /\ token_log.kind = "logout" /\ token_log.had
    /\ ~HasAuthorization(sent[1])

(* C13: a login or register that succeeded leaves the access token of its  *)
(* response in the token slot and in the Authorization header, whatever    *)
(* was set before, and a call dispatched next carries it.                  *)
C13_LoginChainsToken ==
    /\ (/\ Done /\ op \in ChainKinds /\ op_result.exc = "-"
        /\ token_log.kind = op)
          => /\ token_log.token = ResponseAccessToken
             /\ access_token = ResponseAccessToken
             /\ HasAuthorization(headers)
             /\ headers["Authorization"] = "Bearer " \o ResponseAccessToken.s
    /\ (Done /\ op \in ChainKinds /\ op_result.exc = "-")
          => token_log.kind # "none"
    /\ (TokenUntouchedSinceDispatch /\ token_log.kind \in ChainKinds)
          => /\ prepared.after = token_log.kind
             /\ HasAuthorization(sent[1])
             /\ sent[1]["Authorization"] = "Bearer " \o token_log.token.s

C13_Witness ==
    /\ TokenUntouchedSinceDispatch /\ op = "request"
    /\ token_log.kind = "login" /\ token_log.had
    /\ sent[1]["Authorization"] = "Bearer tok-L"

(* C14: the step that ends a call with an exception of request() leaves    *)
(* the token slot and the session headers as they were.                    *)
C14_FailureStep ==
    (pc = "inflight" /\ pc' = "done" /\ result'.exc # "-")
        => (access_token' = access_token /\ headers' = headers)

C14_FailureKeepsToken == [][C14_FailureStep]_vars

C14_Witness ==
    /\ Done /\ op = "request"
    /\ response.status = 401
    /\ result.code = JStr("INVALID_TOKEN") /\ result.status_code = 401
    /\ prepared.token = JStr("tok-A")
    /\ access_token = JStr("tok-A")
    /\ headers["Authorization"] = "Bearer tok-A"

(* C15: every attempt of a call carries the headers of its first attempt,  *)
(* also when the token is set or cleared while the call is in flight; the  *)
(* first attempt carries the session headers of the moment of dispatch.    *)
C15_SnapshotAtDispatch ==
    /\ \A i \in 1..Len(sent) : sent[i] = sent[1]
    /\ Len(sent) >= 1 => sent[1] = prepared.headers

C15_Witness ==
    /\ pc = "inflight" /\ attempts = 2
    /\ prepared.token = JNull
    /\ token_log.kind = "set_access_token" /\ token_log.at = 1
    /\ HasAuthorization(headers)
    /\ ~HasAuthorization(sent[2])

(* ------------------------------ Webhooks ------------------------------- *)
PyBytes(s) == [t |-> "bytes", s |-> s]

\* stand-ins, within the strings of the model, for U+00E9 and for U+0000
EACUTE == "^"
NUL    == "_"

IsAscii(s) == \A i \in 1..Len(s) : SubSeq(s, i, i) # EACUTE

RECURSIVE Utf8(_)
\* s.encode("utf-8"): an ASCII character is one byte, U+00E9 is two
Utf8(s) ==
    IF s = "" THEN ""
    ELSE (IF SubSeq(s, 1, 1) = EACUTE THEN "<C3><A9>" ELSE SubSeq(s, 1, 1))
            \o Utf8(SubSeq(s, 2, Len(s)))

\* v.encode("utf-8"): only str has the method
Encode(v) ==
    IF v.t = "str" THEN Return(PyBytes(Utf8(v.s))) ELSE Raise("AttributeError")

RECURSIVE PadKey(_)
(* HMAC pads a key shorter than the block with zero bytes, so two keys     *)
(* that differ in trailing zero bytes only are the same key; the padded    *)
(* key is written without its trailing zero bytes.                         *)
PadKey(key) ==
    IF Len(key) > 0 /\ SubSeq(key, Len(key), Len(key)) = NUL
        THEN PadKey(SubSeq(key, 1, Len(key) - 1))
        ELSE key

\* a digest that forgets the key
HexDigest_NoKey(key, msg) == "hmac(" \o "," \o msg \o ")"

(* hmac.new(key, msg, sha256).hexdigest(): an ASCII str, one for each      *)
(* pair of padded key and message (HMAC taken as injective).               *)
HexDigest(key, msg) == "hmac(" \o PadKey(key) \o "," \o msg \o ")"

(* hmac.compare_digest(a, b) with b an ASCII str: a must be an ASCII str   *)
(* too, anything else is a TypeError.                                      *)
CompareDigest(a, b) ==
    IF a.t = "str" /\ IsAscii(a.s) THEN Return(JBool(a.s = b))
    ELSE Raise("TypeError")

\* the body of the try block of verify_signature
TryVerify(payload, signature, secret) ==
    IF Encode(secret).exc # "-" THEN Encode(secret)
    ELSE IF Encode(payload).exc # "-" THEN Encode(payload)
    ELSE CompareDigest(signature,
                       HexDigest(Encode(secret).value.s, Encode(payload).value.s))

\* verify_signature without its except clause
VerifySignature_Propagates(payload, signature, secret) ==
    [out |-> TryVerify(payload, signature, secret), caught |-> "-"]

(* verify_signature(payload, signature, secret): what it returns and the   *)
(* exception its except clause swallowed ("-": none).                      *)
VerifySignature(payload, signature, secret) ==
    LET r == TryVerify(payload, signature, secret)
    IN  IF r.exc # "-" THEN [out |-> Return(JBool(FALSE)), caught |-> r.exc]
        ELSE [out |-> r, caught |-> "-"]

\* json.loads(raw_body) inside its try block
JsonLoads(raw) ==
    IF raw.t \notin {"str", "bytes"} THEN Raise("TypeError")
    ELSE IF json(raw.s) = NotJson THEN Raise("JSONDecodeError")
    ELSE Return(json(raw.s))

\* parse_payload that decodes the body whatever the signature
ParsePayload_Unverified(raw_body, signature, secret) ==
    LET d == JsonLoads(raw_body)
    IN  [out |-> IF d.exc # "-" THEN Return(JNull) ELSE d,
         caught |-> IF d.exc # "-" THEN d.exc ELSE "-", decoded |-> TRUE]

(* parse_payload(raw_body, signature, secret): what it returns, the        *)
(* exception swallowed, and whether json.loads was called.                 *)
ParsePayload(raw_body, signature, secret) ==
    LET v == VerifySignature(raw_body, signature, secret)
    IN  IF v.out.value # JBool(TRUE)
            THEN [out |-> Return(JNull), caught |-> v.caught, decoded |-> FALSE]
        ELSE LET d == JsonLoads(raw_body)
             IN  [out |-> IF d.exc # "-" THEN Return(JNull) ELSE d,
                  caught |-> IF d.exc # "-" THEN d.exc ELSE "-",
                  decoded |-> TRUE]

WebhookCall(fn, payload, signature, secret, r, decoded, tampered) ==
    [fn |-> fn, payload |-> payload, signature |-> signature,
     secret |-> secret, out |-> r.out, caught |-> r.caught,
     decoded |-> decoded, tampered |-> tampered]

\* the arguments of the calls to come, nothing called yet
WebhookArgs(payload, signature, secret) ==
    WebhookCall("none", payload, signature, secret,
                [out |-> NoResult, caught |-> "-"], FALSE, "-")

CallVerifySignature ==
    /\ wh' = WebhookCall("verify_signature", wh.payload, wh.signature,
                         wh.secret,
                         VerifySignature(wh.payload, wh.signature, wh.secret),
                         FALSE, wh.tampered)
    /\ UNCHANGED <<clientVars, tokenVars, callVars, peer>>

CallParsePayload ==
    /\ wh' = LET r == ParsePayload(wh.payload, wh.signature, wh.secret)
             IN  WebhookCall("parse_payload", wh.payload, wh.signature,
                             wh.secret, r, r.decoded, wh.tampered)
    /\ UNCHANGED <<clientVars, tokenVars, callVars, peer>>

\* s with the character at position i replaced by c
Substitute(s, i, c) == SubSeq(s, 1, i - 1) \o c \o SubSeq(s, i + 1, Len(s))

(* One character of one argument of a call that verified is replaced by a  *)
(* different one and verify_signature is called on the new triple.         *)
Tamper(field, c) ==
    /\ wh.fn = "verify_signature"
    /\ wh.out.value = JBool(TRUE)
    /\ wh.tampered = "-"
    /\ \E i \in 1..Len(wh[field].s) :
          /\ SubSeq(wh[field].s, i, i) # c
          /\ LET t == [wh EXCEPT ![field] = JStr(Substitute(wh[field].s, i, c))]
             IN  wh' = WebhookCall("verify_signature", t.payload, t.signature,
                                   t.secret,
                                   VerifySignature(t.payload, t.signature,
                                                   t.secret),
                                   FALSE, field)
    /\ UNCHANGED <<clientVars, tokenVars, callVars, peer>>

TamperChars == {"x", "A", NUL, EACUTE}

StrSecrets  == {"k", "k" \o NUL, "s" \o EACUTE}
StrPayloads == {"{accounts:[]}", "null", "{data:0}", "not json", "",
                "{e:" \o EACUTE \o "}"}
Secrets     == {JStr(s) : s \in StrSecrets} \cup {JNull, JInt(1), PyBytes("k")}
Payloads    == {JStr(p) : p \in StrPayloads}
                  \cup {JNull, JInt(1), PyBytes("null")}
Signatures  ==
    {JStr(HexDigest(Utf8(s), Utf8(p))) : s \in StrSecrets, p \in StrPayloads}
        \cup {JStr("hmac(k,nul" \o EACUTE \o ")"), JStr(""), JNull, JInt(1),
              PyBytes(HexDigest("k", "null"))}

InitWebhook ==
    /\ ConstructClient("production", JNull, 0)
    /\ \E p \in Payloads, sig \in Signatures, sec \in Secrets :
            wh = WebhookArgs(p, sig, sec)

NextWebhook ==
    \/ CallVerifySignature
    \/ CallParsePayload
    \/ \E field \in {"payload", "signature", "secret"}, c \in TamperChars :
            Tamper(field, c)

SpecWebhook == InitWebhook /\ [][NextWebhook]_vars

(* --------------------- claims about the webhooks ----------------------- *)
AllStr(c) == c.payload.t = "str" /\ c.signature.t = "str" /\ c.secret.t = "str"

\* the signature of the call is the hex HMAC of its payload under its secret
SignatureMatches(c) ==
    /\ AllStr(c)
    /\ c.signature.s = HexDigest(Utf8(c.secret.s), Utf8(c.payload.s))

Malformed(c) ==
    \/ c.payload.t # "str" \/ c.secret.t # "str" \/ c.signature.t # "str"
    \/ ~IsAscii(c.signature.s)

(* C16: verify_signature returns true exactly when the signature is the    *)
(* hex HMAC-SHA256 of the payload under the secret, and replacing one      *)
(* character of the payload, the signature or the secret of a verifying    *)
(* triple makes it return false.                                           *)
C16_VerifiesIffHmac ==
    /\ wh.fn = "verify_signature"
          => /\ (wh.out.value = JBool(TRUE)) <=> SignatureMatches(wh)
             /\ wh.tampered # "-" => wh.out.value = JBool(FALSE)
    /\ wh.tampered # "-" => ~SignatureMatches(wh)

C16_Witness ==
    /\ wh.fn = "verify_signature"
    /\ wh.tampered = "secret"
    /\ wh.secret = JStr("k" \o "x")
    /\ wh.signature = JStr(HexDigest("k", "null"))
    /\ wh.out.value = JBool(FALSE)

(* C17: verify_signature raises nothing; on a null or non-string           *)
(* argument, or a signature with a non-ASCII character, it returns false.  *)
C17_NeverRaises ==
    wh.fn = "verify_signature"
        => /\ wh.out.exc = "-"
           /\ wh.out.value \in {JBool(TRUE), JBool(FALSE)}
           /\ Malformed(wh) => wh.out.value = JBool(FALSE)

C17_Witness ==
    /\ wh.fn = "verify_signature"
    /\ wh.signature.t = "str" /\ ~IsAscii(wh.signature.s)
    /\ wh.payload.t = "str" /\ wh.secret.t = "str"
    /\ wh.caught = "TypeError"
    /\ wh.out = Return(JBool(FALSE))

(* C18: parse_payload returns the decoded body exactly when the signature  *)
(* verifies and the body is JSON, returns None otherwise, raises nothing,  *)
(* and calls json.loads only after the signature has verified.             *)
C18_ParseAfterVerify ==
    wh.fn = "parse_payload"
        => /\ wh.out.exc = "-"
           /\ wh.out.value =
                 IF SignatureMatches(wh) /\ json(wh.payload.s) # NotJson
                     THEN json(wh.payload.s) ELSE JNull
           /\ wh.decoded <=> SignatureMatches(wh)

C18_Witness ==
    /\ wh.fn = "parse_payload"
    /\ wh.decoded
    /\ wh.payload = JStr("{accounts:[]}")
    /\ wh.out.value = JDict([accounts |-> JList(<<>>)])

(* ------------------------ base URL and request URL --------------------- *)
Environments == {"production", "sandbox", "staging"}
Overrides ==
    {JNull, JStr(""), JStr("http://localhost:3000"),
     JStr("http://localhost:3000/api"), JStr("http://localhost:3000/api/")}
Paths == {"/auth/login", "auth/login", "/items", "//accounts/balance"}

\* ReshADX(api_key, environment, base_url): the client builds its HttpClient
InitUrl ==
    \E env \in Environments, override \in Overrides : Construct(env, override, 0)

NextUrl ==
    \/ \E m \in {"GET", "POST"}, path \in Paths : Request("request", m, path)
    \/ \E status \in {200, 404}, text \in {"null", "{error:{}}"} :
            Respond(status, <<>>, text)
    \/ ConnectError("refused")

SpecUrl == InitUrl /\ [][NextUrl]_vars

(* ------------------------- claims about the URL ------------------------ *)
RECURSIVE RStrip(_)
\* s without its trailing "/" characters
RStrip(s) ==
    IF Len(s) > 0 /\ SubSeq(s, Len(s), Len(s)) = "/"
        THEN RStrip(SubSeq(s, 1, Len(s) - 1))
        ELSE s

\* the base URL with all its path segments, followed by the segments of path
BaseThenPath(base, path) == RStrip(base) \o "/" \o LStrip(path)

(* C19: the URL of every request dispatched is the base URL, all its path  *)
(* segments kept, followed by the segments of the given path, with or      *)
(* without a leading "/" on the path and a trailing "/" on the base.       *)
C19_UrlIsBaseThenPath ==
    pc # "idle" => prepared.url = BaseThenPath(base_url, prepared.path)

NoOverride == ~(ctor.base_url.t = "str" /\ ctor.base_url.s # "")

C20_BaseUrlOfConstruction ==
    /\ ~NoOverride => base_url = ctor.base_url.s
    /\ (NoOverride /\ ctor.environment = "production")
          => base_url = "https://api.reshadx.com/v1"
    /\ (NoOverride /\ ctor.environment # "production")
          => base_url = "https://sandbox-api.reshadx.com/v1"

(* C20: the base URL is chosen at construction and never changes: a        *)
(* non-empty override wins over the environment; without one, production   *)
(* gives the production endpoint and sandbox, or any other environment,    *)
(* the sandbox endpoint.                                                   *)
C20_BaseUrlFixed ==
    [](C20_BaseUrlOfConstruction) /\ [][base_url' = base_url /\ ctor' = ctor]_vars

C20_Witness ==
    /\ Done /\ attempts = 1
    /\ ctor = [environment |-> "staging", base_url |-> JStr("")]
    /\ base_url = SANDBOX_URL
    /\ prepared.url = "https://sandbox-api.reshadx.com/items"

(* ------------------ more claims about the token and Auth --------------- *)
\* the step in which a call issued by operation o ends
Ends(o) == pc = "inflight" /\ pc' = "done" /\ op = o

\* the payload request() returned in that step has the key accessToken
ReturnsAccessToken ==
    /\ result'.exc = "-"
    /\ result'.value.t = "dict"
    /\ "accessToken" \in DOMAIN result'.value.m

C21_RefreshStep ==
    Ends("refresh_token")
        => IF ReturnsAccessToken
           THEN /\ access_token' = result'.value.m["accessToken"]
                /\ HasAuthorization(headers')
                /\ headers'["Authorization"] = "Bearer " \o Format(access_token')
           ELSE access_token' = access_token /\ headers' = headers

(* C21: the step that ends a refresh_token call installs the accessToken   *)
(* of the payload when the call succeeded and the payload has that key,    *)
(* and leaves the token and the session headers alone when the payload     *)
(* lacks it or the call failed.                                            *)
C21_RefreshReplacesOrKeeps == [][C21_RefreshStep]_vars

C21_Witness ==
    /\ Done /\ op = "refresh_token"
    /\ token_log.kind = "refresh_token" /\ token_log.had
    /\ access_token = JStr("tok-F")
    /\ headers["Authorization"] = "Bearer tok-F"

(* C22: in every state the access_token field and the Authorization       *)
(* header of the session agree: the header is absent exactly when the      *)
(* field is None, and is "Bearer " followed by the field otherwise.        *)
C22_TokenAndHeaderAgree ==
    IF access_token = JNull
    THEN ~HasAuthorization(headers)
    ELSE /\ HasAuthorization(headers)
         /\ headers["Authorization"] = "Bearer " \o Format(access_token)

\* the payload request() returned in this step validates into the typed
\* response record of operation o
ReturnsValid(o) ==
    /\ result'.exc = "-"
    /\ result'.value.t = "dict"
    /\ Validates(o, result'.value)

C23_ChainStep ==
    \A o \in ChainKinds :
        Ends(o)
            => /\ ~ReturnsValid(o)
                    => /\ op_result'.exc # "-"
                       /\ access_token' = access_token
                       /\ headers' = headers
               /\ (access_token' # access_token \/ headers' # headers)
                    => ReturnsValid(o) /\ op_result'.exc = "-"

(* C23: the step that ends a login or register call changes the token      *)
(* only when request() returned and the payload validated; when request()  *)
(* raised or validation failed, the operation raises and the token and     *)
(* the session headers are what they were before the call.                 *)
C23_TokenOnlyAfterValidation == [][C23_ChainStep]_vars

C23_Witness ==
    /\ Done /\ op = "login"
    /\ response.status = 200
    /\ response.text =
          "{data:{userId:u-1,tokens:{accessToken:tok-R,refreshToken:ref-1}}}"
    /\ result.exc = "-"
    /\ op_result.exc = "ValidationError"
    /\ access_token = JStr("tok-A")
    /\ headers["Authorization"] = "Bearer tok-A"

(* ----------------------------- two clients ----------------------------- *)
\* the path and method of one request of each resource
PathOf ==
    [link |-> "/link/token/create", accounts |-> "/accounts",
     transactions |-> "/transactions",
     credit_score |-> "/credit-score/calculate", risk |-> "/risk/assess",
     webhooks |-> "/webhooks", items |-> "/items"]
MethodOf ==
    [link |-> "POST", accounts |-> "GET", transactions |-> "GET",
     credit_score |-> "POST", risk |-> "POST", webhooks |-> "POST",
     items |-> "GET"]

\* set_access_token and clear_access_token on the HttpClient state st
SetTokenOn(st, token) ==
    [access_token |-> token,
     headers |-> SetHeader(st.headers, "Authorization", "Bearer " \o Format(token))]
ClearTokenOn(st) ==
    [access_token |-> JNull,
     headers |-> IF "Authorization" \in DOMAIN st.headers
                 THEN DelHeader(st.headers, "Authorization") ELSE st.headers]

\* the token of the HttpClient of client c
ClientToken(c) ==
    IF Http(c) = "A" THEN access_token ELSE peer.http[Http(c)].access_token

(* ReshADX.set_access_token(token) on client c                             *)
ClientSetAccessToken(c, token) ==
    IF Http(c) = "A"
    THEN /\ SetToken(token)
         /\ token_log' = TokenOp("set_access_token", token, "-")
         /\ peer' = [peer EXCEPT !.by = [client |-> c, kind |-> "set_access_token"]]
         /\ UNCHANGED <<clientVars, callVars, wh>>
    ELSE /\ peer' = [peer EXCEPT
                        !.http[Http(c)] = SetTokenOn(@, token),
                        !.by = [client |-> c, kind |-> "set_access_token"]]
         /\ UNCHANGED <<clientVars, tokenVars, callVars, wh>>

(* ReshADX.clear_access_token() on client c                                *)
ClientClearAccessToken(c) ==
    IF Http(c) = "A"
    THEN /\ ClearToken
         /\ token_log' = TokenOp("clear_access_token", JNull, ClearExc(headers))
         /\ peer' = [peer EXCEPT !.by = [client |-> c, kind |-> "clear_access_token"]]
         /\ UNCHANGED <<clientVars, callVars, wh>>
    ELSE /\ peer' = [peer EXCEPT
                        !.http[Http(c)] = ClearTokenOn(@),
                        !.by = [client |-> c, kind |-> "clear_access_token"]]
         /\ UNCHANGED <<clientVars, tokenVars, callVars, wh>>

(* A request of resource r of client c. On the HttpClient of the variables *)
(* it is the call followed above; on another one it is followed up to its  *)
(* dispatch, which takes the session headers of that HttpClient (the       *)
(* outcome of a call changes no token).                                    *)
ClientRequest(c, r) ==
    IF ResourceHttp(c, r) = "A"
    THEN Request("request", MethodOf[r], PathOf[r])
    ELSE /\ peer' = [peer EXCEPT !.last =
                        [client |-> c, resource |-> r,
                         token |-> ClientToken(c),
                         headers |-> AttemptHeaders(
                                        peer.http[ResourceHttp(c, r)].headers,
                                        peer.http[ResourceHttp(c, r)].headers)]]
         /\ UNCHANGED <<clientVars, tokenVars, callVars, wh>>

\* client A logs in through its auth resource
ClientLogin == ResourceHttp("A", "auth") = "A" /\ Login

ClientTokens == [A |-> JStr("tok-A"), B |-> JStr("tok-B")]

InitClients == Construct("production", JNull, 0)

NextClients ==
    \/ \E c \in Clients : ClientSetAccessToken(c, ClientTokens[c])
    \/ \E c \in Clients : ClientClearAccessToken(c)
    \/ \E c \in Clients, r \in Resources \ {"auth"} : ClientRequest(c, r)
    \/ ClientLogin
    \/ \E status \in {200, 401},
          text \in {"{data:{user:{...},tokens:{accessToken:tok-L,refreshToken:ref-1}}}",
                    "{error:{code:INVALID_TOKEN,message:expired}}"} :
            Respond(status, <<>>, text)

SpecClients == InitClients /\ [][NextClients]_vars

(* ----------------------- claims about the clients ---------------------- *)
\* headers h carry token as the bearer token, or none for None
CarriesToken(h, token) ==
    IF token = JNull THEN ~HasAuthorization(h)
    ELSE HasAuthorization(h) /\ h["Authorization"] = "Bearer " \o Format(token)

C24_SharedWithinClient ==
    /\ \A c \in Clients, r \in Resources : ResourceHttp(c, r) = Http(c)
    /\ \A i \in 1..Len(sent) : CarriesToken(sent[i], prepared.token)
    /\ peer.last # NoPeerRequest
          => /\ peer.last.client # "A"
             /\ CarriesToken(peer.last.headers, peer.last.token)

\* a step of another client leaves the token of client A alone, and only
\* an operation of another client changes the token of another client
C24_IsolationStep ==
    /\ (peer' # peer /\ peer'.by.client # "A")
          => access_token' = access_token /\ headers' = headers
    /\ peer'.http # peer.http => peer'.by.client # "A"

(* C24: the requests of every resource of a client are dispatched on the   *)
(* one HttpClient of that client and carry its token, however it was set,  *)
(* and an operation on the token of one client leaves the token and the    *)
(* session headers of the other client as they were.                       *)
C24_TokenPerClient ==
    [](C24_SharedWithinClient) /\ [][C24_IsolationStep]_vars

C24_Witness ==
    /\ pc = "inflight" /\ prepared.path = "/risk/assess"
    /\ HasAuthorization(sent[1])
    /\ sent[1]["Authorization"] = "Bearer tok-L"
    /\ peer.by = [client |-> "B", kind |-> "clear_access_token"]
    /\ peer.last.client = "B" /\ peer.last.resource = "items"
    /\ HasAuthorization(peer.last.headers)
    /\ peer.last.headers["Authorization"] = "Bearer tok-B"
    /\ peer.http["B"].access_token = JNull

====
